---- MODULE Spec2Model ----
(***************************************************************************)
(* Wire game (iraira-web-app): the collision/state engine.                 *)
(*                                                                         *)
(* GameManager (state machine, timer, frame loop), Character (kinematics), *)
(* CollisionDetector (rectangle policy), LevelGenerator (difficulty table, *)
(* walls derived from the path), InputHandler (input gating) and the part  *)
(* of AnimationEngine the state machine depends on (isPlaying, duration,   *)
(* completion).  Rendering and particles are presentation and carry no     *)
(* state here.                                                             *)
(*                                                                         *)
(* Time is Date.now() in milliseconds; the clock advances ClockStep        *)
(* milliseconds at a time.  Math.random() outcomes (the path, the goal     *)
(* height) are choices from bounded families.  GameManager.lastFrameTime   *)
(* only produces the deltaTime argument, which no method reads, and is     *)
(* left out.                                                               *)
(***************************************************************************)
EXTENDS Integers, Sequences, FiniteSets, TLC

VARIABLES
  state,          \* GameManager.state
  startTime,      \* GameManager.startTime
  currentTime,    \* GameManager.currentTime
  score,          \* GameManager.score
  gameLoopId,     \* GameManager.gameLoopId (0 is null)
  difficulty,     \* GameManager.difficulty
  live,           \* FALSE once destroy() has set the components to null
  lg,             \* LevelGenerator: generated level data
  character,      \* Character fields
  cd,             \* CollisionDetector fields
  anim,           \* AnimationEngine fields
  ih,             \* InputHandler fields
  now,            \* the clock read by Date.now() / performance.now()
  scheduled,      \* frame callbacks pending in requestAnimationFrame
  lastOp,         \* the operation that produced this state
  probe,          \* what the last tick did: its path and the test results
  ticks,          \* gameplay ticks of the current run that moved the character
  held,           \* unit harness: heading run observed on a bare Character
  run,            \* wall-clock record of the current run (see NoRun)
  api,            \* APIClient: one _makeRequestWithRetry call in progress
  board           \* leaderboard: the stored scores and the handler's response

vars == <<state, startTime, currentTime, score, gameLoopId,
          difficulty, live, lg, character, cd, anim, ih, now, scheduled,
          lastOp, probe, ticks, held, run, api, board>>

(***************************************************************************)
(* Bounds of the exploration.                                              *)
(***************************************************************************)
MaxClockSteps == 1
ClockStep == 1500
MaxHeld == 3
MaxTicks == 1
MaxWidth == 140
MaxGap == 12
MaxStored == 11

Canvas == [width |-> 128, height |-> 200]

Null == "null"

(***************************************************************************)
(* LevelGenerator                                                          *)
(***************************************************************************)
Difficulties == {"easy", "medium", "hard", "super-hard"}

\* variant: the speeds of hard and super-hard are exchanged
difficultySettings_swapped ==
  [d \in Difficulties |->
     CASE d = "easy"       -> [pathWidth |-> 100, characterSpeed |-> 2]
       [] d = "medium"     -> [pathWidth |-> 60,  characterSpeed |-> 3]
       [] d = "hard"       -> [pathWidth |-> 40,  characterSpeed |-> 6]
       [] d = "super-hard" -> [pathWidth |-> 30,  characterSpeed |-> 4]]

difficultySettings ==
  [d \in Difficulties |->
     CASE d = "easy"       -> [pathWidth |-> 100, characterSpeed |-> 2]
       [] d = "medium"     -> [pathWidth |-> 60,  characterSpeed |-> 3]
       [] d = "hard"       -> [pathWidth |-> 40,  characterSpeed |-> 4]
       [] d = "super-hard" -> [pathWidth |-> 30,  characterSpeed |-> 6]]

\* this.difficultySettings[difficulty] is a property lookup on an object
\* literal: besides the four own keys it finds the members the literal
\* inherits from Object.prototype, and those values are truthy
ObjectPrototypeKeys == {"constructor", "toString", "valueOf",
                        "hasOwnProperty", "__proto__"}
lookupSetting(d) ==
  IF d \in Difficulties THEN "settings"
  ELSE IF d \in ObjectPrototypeKeys THEN "inherited"
  ELSE "undefined"

\* the constructor's test: it throws when the lookup is falsy
passesValidation(d) == lookupSetting(d) # "undefined"

getPathWidth(d) == difficultySettings[d].pathWidth
getCharacterSpeed(d) == difficultySettings[d].characterSpeed

wallThickness == 20
boundaryThickness == 50
startX == 50
goalMargin == 50

Pt(x, y) == [x |-> x, y |-> y]
Rect(x, y, w, h) == [x |-> x, y |-> y, width |-> w, height |-> h]

\* Math.sqrt on the squared lengths that occur (exact for the paths below)
Sqrt(n) == CHOOSE r \in 0..n : r * r <= n /\ (r + 1) * (r + 1) > n

\* generateWaypoints: first and last waypoint; Math.random() picks goalY in
\* [100, 100 + (height - 200))
GoalYs(H) == IF H > 200 THEN 100..(100 + (H - 200) - 1) ELSE {100}
startWaypoint(H) == Pt(startX, H \div 2)
\* variant: the goal is placed the margin away from the left edge
goalWaypoint_fromLeft(W, gy) == Pt(goalMargin, gy)

goalWaypoint(W, gy) == Pt(W - goalMargin, gy)

\* generatePath: the sampled curve is random; these are outcomes that start
\* at the first waypoint and end at the last one
PathChoices(W, H, gy) ==
  LET s == startWaypoint(H)
      g == goalWaypoint(W, gy)
  IN  { <<s, Pt(s.x + 5, s.y), g>>,
        <<s, Pt(s.x + 4, s.y - 3), Pt(s.x + 8, s.y), g>>,
        <<s, Pt(s.x + 4, s.y - 3), Pt(s.x + 8, s.y - 6),
          Pt(s.x + 12, s.y - 3), Pt(s.x + 16, s.y), g>> }

\* generateWalls: two squares per path segment, then the four fence walls
segmentWalls(current, next, halfWidth) ==
  LET dx == next.x - current.x
      dy == next.y - current.y
      length == Sqrt(dx * dx + dy * dy)
      off == halfWidth + wallThickness \div 2
  IN  IF length > 0
      THEN LET perpXoff == ((0 - dy) * off) \div length
               perpYoff == (dx * off) \div length
               leftWallX == current.x + perpXoff
               leftWallY == current.y + perpYoff
               rightWallX == current.x - perpXoff
               rightWallY == current.y - perpYoff
           IN  << Rect(leftWallX - wallThickness \div 2,
                       leftWallY - wallThickness \div 2,
                       wallThickness, wallThickness),
                  Rect(rightWallX - wallThickness \div 2,
                       rightWallY - wallThickness \div 2,
                       wallThickness, wallThickness) >>
      ELSE << >>

RECURSIVE pathWallsFrom(_, _, _)
pathWallsFrom(path, i, halfWidth) ==
  IF i >= Len(path) THEN << >>
  ELSE segmentWalls(path[i], path[i + 1], halfWidth)
       \o pathWallsFrom(path, i + 1, halfWidth)

\* variant: no fence along the right edge
fenceWalls_openRight(W, H) ==
  << Rect(0, 0, W, boundaryThickness),
     Rect(0, H - boundaryThickness, W, boundaryThickness),
     Rect(0, 0, boundaryThickness, H) >>

fenceWalls(W, H) ==
  << Rect(0, 0, W, boundaryThickness),
     Rect(0, H - boundaryThickness, W, boundaryThickness),
     Rect(0, 0, boundaryThickness, H),
     Rect(W - boundaryThickness, 0, boundaryThickness, H) >>

generateWalls(path, d, W, H) ==
  pathWallsFrom(path, 1, getPathWidth(d) \div 2) \o fenceWalls(W, H)

\* generate(): every level the generator can produce for this canvas
Levels(d, W, H) ==
  { [ width |-> W, height |-> H,
      path |-> p,
      walls |-> generateWalls(p, d, W, H),
      startPosition |-> p[1],
      goalPosition |-> p[Len(p)] ] :
    p \in UNION { PathChoices(W, H, gy) : gy \in GoalYs(H) } }

\* generate() on a generator whose settings came from an inherited member:
\* settings.pathWidth is undefined, halfWidth is NaN and so is every
\* coordinate of the walls along the path; the fence does not use it
NaN == "NaN"
RECURSIVE nanWallsFrom(_, _)
nanWallsFrom(path, i) ==
  IF i >= Len(path) THEN << >>
  ELSE (IF path[i] # path[i + 1]
        THEN << Rect(NaN, NaN, wallThickness, wallThickness),
                Rect(NaN, NaN, wallThickness, wallThickness) >>
        ELSE << >>)
       \o nanWallsFrom(path, i + 1)

LevelsNaN(W, H) ==
  { [ width |-> W, height |-> H,
      path |-> p,
      walls |-> nanWallsFrom(p, 1) \o fenceWalls(W, H),
      startPosition |-> p[1],
      goalPosition |-> p[Len(p)] ] :
    p \in UNION { PathChoices(W, H, gy) : gy \in GoalYs(H) } }

(***************************************************************************)
(* Character                                                               *)
(***************************************************************************)
validDirections == {"up", "down", "left", "right"}
characterSize == 10

newCharacter(x, y) ==
  [x |-> x, y |-> y, direction |-> Null, initialX |-> x, initialY |-> y]

\* variant: a heading can only be set on a character that is standing still
Character_setDirection_whenStopped(c, direction) ==
  IF direction \in validDirections /\ c.direction = Null
  THEN [c EXCEPT !.direction = direction]
  ELSE c

Character_setDirection(c, direction) ==
  IF direction \in validDirections
  THEN [c EXCEPT !.direction = direction]
  ELSE c

\* variant: "up" moves down the canvas
\* variant: a tick moves five times the speed
Character_update_leap(c, speed) ==
  CASE c.direction = Null    -> c
    [] c.direction = "up"    -> [c EXCEPT !.y = c.y - 5 * speed]
    [] c.direction = "down"  -> [c EXCEPT !.y = c.y + 5 * speed]
    [] c.direction = "left"  -> [c EXCEPT !.x = c.x - 5 * speed]
    [] c.direction = "right" -> [c EXCEPT !.x = c.x + 5 * speed]
    [] OTHER                 -> c

Character_update_upInverted(c, speed) ==
  CASE c.direction = Null    -> c
    [] c.direction = "up"    -> [c EXCEPT !.y = c.y + speed]
    [] c.direction = "down"  -> [c EXCEPT !.y = c.y + speed]
    [] c.direction = "left"  -> [c EXCEPT !.x = c.x - speed]
    [] c.direction = "right" -> [c EXCEPT !.x = c.x + speed]
    [] OTHER                 -> c

Character_update(c, speed) ==
  CASE c.direction = Null    -> c
    [] c.direction = "up"    -> [c EXCEPT !.y = c.y - speed]
    [] c.direction = "down"  -> [c EXCEPT !.y = c.y + speed]
    [] c.direction = "left"  -> [c EXCEPT !.x = c.x - speed]
    [] c.direction = "right" -> [c EXCEPT !.x = c.x + speed]
    [] OTHER                 -> c

getBounds(c) == Rect(c.x, c.y, characterSize, characterSize)

\* variant: reset(x, y) puts the character at the canvas origin
Character_resetTo_origin(c, x, y) ==
  [x |-> 0, y |-> 0, direction |-> Null, initialX |-> x, initialY |-> y]

\* reset(x, y) with both arguments given
Character_resetTo(c, x, y) ==
  [x |-> x, y |-> y, direction |-> Null, initialX |-> x, initialY |-> y]

\* variant: reset() leaves the heading as it is
Character_reset_keepHeading(c) ==
  [c EXCEPT !.x = c.initialX, !.y = c.initialY]

\* reset() without arguments
Character_reset(c) ==
  [c EXCEPT !.x = c.initialX, !.y = c.initialY, !.direction = Null]

(***************************************************************************)
(* CollisionDetector                                                       *)
(***************************************************************************)
goalSize == 30

\* variant: the right edge of rect2 is taken without its width
boundingBoxCollision_noWidth(rect1, rect2) ==
  /\ rect1.x < rect2.x
  /\ rect1.x + rect1.width > rect2.x
  /\ rect1.y < rect2.y + rect2.height
  /\ rect1.y + rect1.height > rect2.y

\* variant: rectangles that only share an edge count as colliding
boundingBoxCollision_touching(rect1, rect2) ==
  /\ rect1.x <= rect2.x + rect2.width
  /\ rect1.x + rect1.width >= rect2.x
  /\ rect1.y <= rect2.y + rect2.height
  /\ rect1.y + rect1.height >= rect2.y

boundingBoxCollision(rect1, rect2) ==
  /\ rect1.x < rect2.x + rect2.width
  /\ rect1.x + rect1.width > rect2.x
  /\ rect1.y < rect2.y + rect2.height
  /\ rect1.y + rect1.height > rect2.y

\* index of the first wall the loop finds overlapping, 0 if none
firstWallHit(c, walls) ==
  LET hits == { i \in 1..Len(walls) : boundingBoxCollision(getBounds(c), walls[i]) }
  IN  IF hits = {} THEN 0 ELSE CHOOSE i \in hits : \A j \in hits : i <= j

checkWallCollision(c, walls) == firstWallHit(c, walls) # 0

collisionCentre(c) ==
  Pt(getBounds(c).x + getBounds(c).width \div 2,
     getBounds(c).y + getBounds(c).height \div 2)

\* variant: the goal point is the corner of the goal box, not its centre
goalBounds_corner(goal) == Rect(goal.x, goal.y, goalSize, goalSize)

goalBounds(goal) ==
  Rect(goal.x - goalSize \div 2, goal.y - goalSize \div 2, goalSize, goalSize)

checkGoalCollision(c, goal) ==
  boundingBoxCollision(getBounds(c), goalBounds(goal))

\* lastCollisionPoint holds << >> for null and <<p>> for the point p
NullPoint == << >>

newCollisionDetector(walls, goal) ==
  [walls |-> walls, goal |-> goal, lastCollisionPoint |-> NullPoint]

(***************************************************************************)
(* AnimationEngine                                                         *)
(***************************************************************************)
explosionDuration == 1500
victoryDuration == 2500

newAnimationEngine ==
  [isAnimating |-> FALSE, animationType |-> Null, animationStartTime |-> 0,
   animationDuration |-> 0, animationCallback |-> Null]

playExplosion(a, t) ==
  [isAnimating |-> TRUE, animationType |-> "explosion",
   animationStartTime |-> t, animationDuration |-> explosionDuration,
   animationCallback |-> "showGameOverScreen"]

playVictory(a, t) ==
  [isAnimating |-> TRUE, animationType |-> "victory",
   animationStartTime |-> t, animationDuration |-> victoryDuration,
   animationCallback |-> "showVictoryScreen"]

\* Once isAnimating is false no method reads animationStartTime,
\* animationDuration, animationType or animationCallback before playExplosion
\* or playVictory overwrite them; an idle engine is kept in one shape.
endAnimation(a) == newAnimationEngine

\* restartGame's "animationEngine.isAnimating = false"
stopAnimation(a) == newAnimationEngine

AnimationEngine_update(a, t) ==
  IF ~a.isAnimating THEN a
  ELSE IF t - a.animationStartTime >= a.animationDuration
       THEN endAnimation(a)
       ELSE a

\* variant: the engine never reports an effect in flight
isPlaying_never(a) == FALSE

isPlaying(a) == a.isAnimating

(***************************************************************************)
(* InputHandler                                                            *)
(***************************************************************************)
Keys == {"ArrowUp", "ArrowDown", "ArrowLeft", "ArrowRight", "Enter"}

\* keyMap[key] || null on an object literal: a key that names a member of
\* Object.prototype finds that member, which is truthy ("inherited")
mapKeyToDirection(key) ==
  CASE key = "ArrowUp"    -> "up"
    [] key = "ArrowDown"  -> "down"
    [] key = "ArrowLeft"  -> "left"
    [] key = "ArrowRight" -> "right"
    [] key \in ObjectPrototypeKeys -> "inherited"
    [] OTHER              -> Null

newInputHandler == [enabled |-> FALSE, currentDirection |-> Null]

InputHandler_enable(h) == [h EXCEPT !.enabled = TRUE]
\* variant: disable() leaves the listeners attached
InputHandler_disable_noop(h) == h

InputHandler_disable(h) == [h EXCEPT !.enabled = FALSE]
InputHandler_reset(h) == [h EXCEPT !.currentDirection = Null]

\* variant: input is accepted in every state
shouldAcceptInput_always == TRUE

shouldAcceptInput == state = "playing"

(***************************************************************************)
(* GameManager                                                             *)
(***************************************************************************)
States == {"menu", "playing", "paused", "gameover", "victory"}

getCurrentScore == IF state = "playing" THEN currentTime ELSE score

\* probe.generated: the operation has called levelGenerator.generate();
\* probe.again: the tick was not the first one executed in playing since
\* start()
NoProbe == [path |-> "none", wall |-> "none", goal |-> "none",
            generated |-> FALSE, again |-> FALSE]
\* run.base: the instant start() was called, moved forward by the length of
\* every pause()..resume() interval completed since, so that now - run.base
\* is the wall-clock time since start() less the paused time;
\* run.pausedAt: the instant of the pause() that holds the game (-1: none);
\* run.ticked: a tick has executed in playing since start()
NoRun == [base |-> 0, pausedAt |-> -1, ticked |-> FALSE]
\* no request has been made; no score is stored and no leaderboard asked for
NoOutcome == [kind |-> "none", status |-> 0]
NoCall == [pc |-> "idle", attempt |-> 0, lastError |-> NoOutcome,
           result |-> NoOutcome, outcomes |-> << >>, slept |-> << >>]
NoBoard == [Items |-> << >>, limit |-> 0, topScores |-> << >>]
NoHeld == [n |-> 0, fromX |-> 0, fromY |-> 0, speed |-> 0, total |-> 0,
           dir |-> Null, prev |-> Null,
           madeX |-> 0, madeY |-> 0, baseX |-> 0, baseY |-> 0]

\* what the component fields read as once destroy() has nulled them
NoLevel == [width |-> 0, height |-> 0, path |-> << >>, walls |-> << >>,
            startPosition |-> Pt(0, 0), goalPosition |-> Pt(0, 0)]

\* requestAnimationFrame hands out an id that no pending callback has
freshId(pending) == CHOOSE i \in 1..(Cardinality(pending) + 1) : i \notin pending

Init ==
  /\ difficulty \in Difficulties
  /\ state = "menu"
  /\ startTime = 0
  /\ currentTime = 0
  /\ score = 0
  /\ gameLoopId = 0
  /\ live = TRUE
  /\ lg \in Levels(difficulty, Canvas.width, Canvas.height)
  /\ character = newCharacter(lg.startPosition.x, lg.startPosition.y)
  /\ cd = newCollisionDetector(lg.walls, lg.goalPosition)
  /\ anim = newAnimationEngine
  /\ ih = newInputHandler
  /\ now = 0
  /\ scheduled = {}
  /\ lastOp = "constructor"
  /\ probe = NoProbe
  /\ ticks = 0
  /\ held = NoHeld
  /\ run = NoRun
  /\ api = NoCall
  /\ board = NoBoard

\* variant: a frame is requested whether or not one is pending
startGameLoop_unguarded ==
  /\ gameLoopId' = freshId(scheduled)
  /\ scheduled' = scheduled \cup {freshId(scheduled)}

\* _startGameLoop
startGameLoop ==
  IF gameLoopId = 0
  THEN /\ gameLoopId' = freshId(scheduled)
       /\ scheduled' = scheduled \cup {freshId(scheduled)}
  ELSE UNCHANGED <<gameLoopId, scheduled>>

\* _stopGameLoop
stopGameLoop ==
  IF gameLoopId # 0
  THEN /\ scheduled' = scheduled \ {gameLoopId}
       /\ gameLoopId' = 0
  ELSE UNCHANGED <<gameLoopId, scheduled>>

\* variant: start() keeps the start instant it finds
startGame_staleStartTime ==
  /\ state' = "playing"
  /\ startTime' = startTime
  /\ currentTime' = 0
  /\ score' = 0
  /\ character' = IF live
                  THEN Character_resetTo(character, lg.startPosition.x,
                                         lg.startPosition.y)
                  ELSE character
  /\ ih' = IF live THEN InputHandler_enable(ih) ELSE ih
  /\ startGameLoop
  /\ lastOp' = "startGame"
  /\ probe' = NoProbe
  /\ ticks' = 0
  /\ run' = [base |-> now, pausedAt |-> -1, ticked |-> FALSE]
  /\ UNCHANGED <<difficulty, live, lg, cd, anim, now, held,
                 api, board>>

startGame ==
  /\ state' = "playing"
  /\ startTime' = now
  /\ currentTime' = 0
  /\ score' = 0
  /\ character' = IF live
                  THEN Character_resetTo(character, lg.startPosition.x,
                                         lg.startPosition.y)
                  ELSE character
  /\ ih' = IF live THEN InputHandler_enable(ih) ELSE ih
  /\ startGameLoop
  /\ lastOp' = "startGame"
  /\ probe' = NoProbe
  /\ ticks' = 0
  /\ run' = [base |-> now, pausedAt |-> -1, ticked |-> FALSE]
  /\ UNCHANGED <<difficulty, live, lg, cd, anim, now, held,
                 api, board>>

pauseGame ==
  /\ IF state = "playing"
     THEN /\ state' = "paused"
          /\ stopGameLoop
          /\ ih' = IF live THEN InputHandler_disable(ih) ELSE ih
          /\ run' = [run EXCEPT !.pausedAt = now]
     ELSE UNCHANGED <<state, gameLoopId, scheduled, ih, run>>
  /\ lastOp' = "pauseGame"
  /\ probe' = NoProbe
  /\ UNCHANGED <<startTime, currentTime, score, difficulty,
                 live, lg, character, cd, anim, now, ticks, held,
                 api, board>>

\* variant: resume restarts the timer at the instant of the call
resumeGame_timerFromNow ==
  /\ IF state = "paused"
     THEN /\ state' = "playing"
          /\ startTime' = now
          /\ ih' = IF live THEN InputHandler_enable(ih) ELSE ih
          /\ startGameLoop
          /\ run' = [run EXCEPT !.base = run.base + (now - run.pausedAt),
                                !.pausedAt = -1]
     ELSE UNCHANGED <<state, startTime, ih, gameLoopId,
                      scheduled, run>>
  /\ lastOp' = "resumeGame"
  /\ probe' = NoProbe
  /\ UNCHANGED <<currentTime, score, difficulty, live, lg, character, cd,
                 anim, now, ticks, held,
                 api, board>>

resumeGame ==
  /\ IF state = "paused"
     THEN /\ state' = "playing"
          /\ startTime' = startTime + (now - startTime - currentTime)
          /\ ih' = IF live THEN InputHandler_enable(ih) ELSE ih
          /\ startGameLoop
          /\ run' = [run EXCEPT !.base = run.base + (now - run.pausedAt),
                                !.pausedAt = -1]
     ELSE UNCHANGED <<state, startTime, ih, gameLoopId,
                      scheduled, run>>
  /\ lastOp' = "resumeGame"
  /\ probe' = NoProbe
  /\ UNCHANGED <<currentTime, score, difficulty, live, lg, character, cd,
                 anim, now, ticks, held,
                 api, board>>

\* variant: the collision detector keeps the walls of the previous level
restartGame_staleWalls ==
  /\ stopGameLoop
  /\ IF live
     THEN /\ lg' \in Levels(difficulty, Canvas.width, Canvas.height)
          /\ character' = Character_resetTo(character, lg'.startPosition.x,
                                            lg'.startPosition.y)
          /\ cd' = [walls |-> cd.walls, goal |-> lg'.goalPosition,
                    lastCollisionPoint |-> NullPoint]
          /\ anim' = stopAnimation(anim)
          /\ ih' = InputHandler_reset(InputHandler_disable(ih))
     ELSE UNCHANGED <<lg, character, cd, anim, ih>>
  /\ state' = "menu"
  /\ startTime' = 0
  /\ currentTime' = 0
  /\ score' = 0
  /\ lastOp' = "restartGame"
  /\ probe' = [NoProbe EXCEPT !.generated = live]
  /\ ticks' = 0
  /\ run' = NoRun
  /\ UNCHANGED <<difficulty, live, now, held,
                 api, board>>

restartGame ==
  /\ stopGameLoop
  /\ IF live
     THEN /\ lg' \in Levels(difficulty, Canvas.width, Canvas.height)
          /\ character' = Character_resetTo(character, lg'.startPosition.x,
                                            lg'.startPosition.y)
          /\ cd' = [walls |-> lg'.walls, goal |-> lg'.goalPosition,
                    lastCollisionPoint |-> NullPoint]
          /\ anim' = stopAnimation(anim)
          /\ ih' = InputHandler_reset(InputHandler_disable(ih))
     ELSE UNCHANGED <<lg, character, cd, anim, ih>>
  /\ state' = "menu"
  /\ startTime' = 0
  /\ currentTime' = 0
  /\ score' = 0
  /\ lastOp' = "restartGame"
  /\ probe' = [NoProbe EXCEPT !.generated = live]
  /\ ticks' = 0
  /\ run' = NoRun
  /\ UNCHANGED <<difficulty, live, now, held,
                 api, board>>

\* handleGameOver: the collision point is the one the positive wall test of
\* this tick has just stored, so the explosion branch is the one taken
handleGameOver ==
  /\ state' = "gameover"
  /\ ih' = InputHandler_disable(ih)
  /\ anim' = playExplosion(anim, now)
  /\ UNCHANGED score

\* variant: the completion time is not recorded
handleGoalReached_noScore ==
  /\ state' = "victory"
  /\ UNCHANGED score
  /\ ih' = InputHandler_disable(ih)
  /\ anim' = playVictory(anim, now)

handleGoalReached ==
  /\ state' = "victory"
  /\ score' = currentTime'
  /\ ih' = InputHandler_disable(ih)
  /\ anim' = playVictory(anim, now)

\* the probe of a tick that passed the state test
TickProbe == [NoProbe EXCEPT !.again = run.ticked]

\* variant: the goal test comes before the wall test
updatePlaying_goalFirst ==
  /\ currentTime' = now - startTime
  /\ run' = [run EXCEPT !.ticked = TRUE]
  /\ IF live /\ isPlaying(anim)
     THEN /\ anim' = AnimationEngine_update(anim, now)
          /\ probe' = [TickProbe EXCEPT !.path = "anim", !.wall = "none",
                               !.goal = "none"]
          /\ UNCHANGED <<state, score, character, cd, ih, ticks>>
     ELSE IF ~live
     THEN /\ probe' = [TickProbe EXCEPT !.path = "run", !.wall = "none",
                               !.goal = "none"]
          /\ UNCHANGED <<state, score, character, cd, ih, anim, ticks>>
     ELSE /\ character.direction # Null => ticks < MaxTicks
          /\ ticks' = IF character.direction # Null THEN ticks + 1 ELSE ticks
          /\ character' = Character_update(character,
                                           getCharacterSpeed(difficulty))
          /\ IF checkGoalCollision(character', cd.goal)
             THEN /\ probe' = [TickProbe EXCEPT !.path = "run", !.wall = "none",
                               !.goal = "true"]
                  /\ handleGoalReached
                  /\ UNCHANGED cd
             ELSE IF checkWallCollision(character', cd.walls)
             THEN /\ cd' = [cd EXCEPT !.lastCollisionPoint =
                                         <<collisionCentre(character')>>]
                  /\ probe' = [TickProbe EXCEPT !.path = "run", !.wall = "true",
                               !.goal = "false"]
                  /\ handleGameOver
             ELSE /\ probe' = [TickProbe EXCEPT !.path = "run", !.wall = "false",
                               !.goal = "false"]
                  /\ UNCHANGED <<state, score, cd, ih, anim>>

\* variant: both tests look at the position the tick found, then it moves
updatePlaying_testBeforeMove ==
  /\ currentTime' = now - startTime
  /\ run' = [run EXCEPT !.ticked = TRUE]
  /\ IF live /\ isPlaying(anim)
     THEN /\ anim' = AnimationEngine_update(anim, now)
          /\ probe' = [TickProbe EXCEPT !.path = "anim", !.wall = "none",
                               !.goal = "none"]
          /\ UNCHANGED <<state, score, character, cd, ih, ticks>>
     ELSE IF ~live
     THEN /\ probe' = [TickProbe EXCEPT !.path = "run", !.wall = "none",
                               !.goal = "none"]
          /\ UNCHANGED <<state, score, character, cd, ih, anim, ticks>>
     ELSE /\ character.direction # Null => ticks < MaxTicks
          /\ ticks' = IF character.direction # Null THEN ticks + 1 ELSE ticks
          /\ character' = Character_update(character,
                                           getCharacterSpeed(difficulty))
          /\ IF checkWallCollision(character, cd.walls)
             THEN /\ cd' = [cd EXCEPT !.lastCollisionPoint =
                                         <<collisionCentre(character)>>]
                  /\ probe' = [TickProbe EXCEPT !.path = "run", !.wall = "true",
                               !.goal = "none"]
                  /\ handleGameOver
             ELSE IF checkGoalCollision(character, cd.goal)
             THEN /\ probe' = [TickProbe EXCEPT !.path = "run", !.wall = "false",
                               !.goal = "true"]
                  /\ handleGoalReached
                  /\ UNCHANGED cd
             ELSE /\ probe' = [TickProbe EXCEPT !.path = "run", !.wall = "false",
                               !.goal = "false"]
                  /\ UNCHANGED <<state, score, cd, ih, anim>>

\* update(deltaTime) once the state test has passed; deltaTime is only
\* handed to AnimationEngine.update, which does not read it
updatePlaying ==
  /\ currentTime' = now - startTime
  /\ run' = [run EXCEPT !.ticked = TRUE]
  /\ IF live /\ isPlaying(anim)
     THEN /\ anim' = AnimationEngine_update(anim, now)
          /\ probe' = [TickProbe EXCEPT !.path = "anim", !.wall = "none",
                               !.goal = "none"]
          /\ UNCHANGED <<state, score, character, cd, ih, ticks>>
     ELSE IF ~live
     THEN /\ probe' = [TickProbe EXCEPT !.path = "run", !.wall = "none",
                               !.goal = "none"]
          /\ UNCHANGED <<state, score, character, cd, ih, anim, ticks>>
     ELSE /\ character.direction # Null => ticks < MaxTicks
          /\ ticks' = IF character.direction # Null THEN ticks + 1 ELSE ticks
          /\ character' = Character_update(character,
                                           getCharacterSpeed(difficulty))
          /\ IF checkWallCollision(character', cd.walls)
             THEN /\ cd' = [cd EXCEPT !.lastCollisionPoint =
                                         <<collisionCentre(character')>>]
                  /\ probe' = [TickProbe EXCEPT !.path = "run", !.wall = "true",
                               !.goal = "none"]
                  /\ handleGameOver
             ELSE IF checkGoalCollision(character', cd.goal)
             THEN /\ probe' = [TickProbe EXCEPT !.path = "run", !.wall = "false",
                               !.goal = "true"]
                  /\ handleGoalReached
                  /\ UNCHANGED cd
             ELSE /\ probe' = [TickProbe EXCEPT !.path = "run", !.wall = "false",
                               !.goal = "false"]
                  /\ UNCHANGED <<state, score, cd, ih, anim>>

\* variant: update without the early return for states other than playing
update_noStateCheck ==
  /\ updatePlaying
  /\ lastOp' = "update"
  /\ UNCHANGED <<startTime, gameLoopId, difficulty, live, lg,
                 now, scheduled, held,
                 api, board>>

\* update(deltaTime) called directly
update ==
  /\ IF state # "playing"
     THEN /\ probe' = [NoProbe EXCEPT !.path = "idle", !.wall = "none",
                               !.goal = "none"]
          /\ UNCHANGED <<state, currentTime, score, character, cd, anim, ih,
                         ticks, run>>
     ELSE updatePlaying
  /\ lastOp' = "update"
  /\ UNCHANGED <<startTime, gameLoopId, difficulty, live, lg,
                 now, scheduled, held,
                 api, board>>

\* gameLoop(timestamp): a pending frame callback fires
gameLoop(id) ==
  /\ id \in scheduled
  /\ IF state # "playing"
     THEN /\ scheduled' = scheduled \ {id}
          /\ probe' = [NoProbe EXCEPT !.path = "idle", !.wall = "none",
                               !.goal = "none"]
          /\ UNCHANGED <<state, currentTime, score, character, cd, anim, ih,
                         gameLoopId, ticks, run>>
     ELSE /\ updatePlaying
          /\ gameLoopId' = freshId(scheduled \ {id})
          /\ scheduled' = (scheduled \ {id}) \cup {freshId(scheduled \ {id})}
  /\ lastOp' = "gameLoop"
  /\ UNCHANGED <<startTime, difficulty, live, lg, now, held,
                 api, board>>

\* InputHandler.handleKeyDown(event), on the handler of a GameManager that
\* still holds its components
handleKeyDown(key) ==
  /\ live
  /\ IF shouldAcceptInput /\ mapKeyToDirection(key) # Null
     THEN /\ ih' = [ih EXCEPT !.currentDirection = mapKeyToDirection(key)]
          /\ character' = IF live
                          THEN Character_setDirection(character,
                                                      mapKeyToDirection(key))
                          ELSE character
     ELSE UNCHANGED <<ih, character>>
  /\ lastOp' = "handleKeyDown"
  /\ probe' = NoProbe
  /\ UNCHANGED <<state, startTime, currentTime, score, gameLoopId,
                 difficulty, live, lg, cd, anim, now,
                 scheduled, ticks, held, run,
                 api, board>>

\* destroy(): the components are dropped; their fields are no longer
\* reachable from the GameManager
destroy ==
  /\ live
  /\ stopGameLoop
  /\ live' = FALSE
  /\ lg' = NoLevel
  /\ character' = newCharacter(0, 0)
  /\ cd' = newCollisionDetector(<< >>, Pt(0, 0))
  /\ anim' = newAnimationEngine
  /\ ih' = newInputHandler
  /\ lastOp' = "destroy"
  /\ probe' = NoProbe
  /\ UNCHANGED <<state, startTime, currentTime, score, difficulty, now, ticks, held, run,
                 api, board>>

\* time passes between two operations
clock ==
  /\ now + ClockStep <= MaxClockSteps * ClockStep
  /\ now' = now + ClockStep
  /\ lastOp' = "clock"
  /\ probe' = NoProbe
  /\ UNCHANGED <<state, startTime, currentTime, score, gameLoopId,
                 difficulty, live, lg, character, cd, anim,
                 ih, scheduled, ticks, held, run,
                 api, board>>

Next ==
  \/ startGame
  \/ pauseGame
  \/ resumeGame
  \/ restartGame
  \/ update
  \/ \E id \in scheduled : gameLoop(id)
  \/ \E key \in Keys : handleKeyDown(key)
  \/ destroy
  \/ clock

Spec == Init /\ [][Next]_vars

\* One session, started from the menu, while the frame driver keeps
\* delivering ticks and the clock keeps advancing, with no restart() and no
\* destroy(): ticks and clock steps are not postponed forever.
FrameNext ==
  \/ (state = "menu" /\ startGame)
  \/ pauseGame
  \/ resumeGame
  \/ update
  \/ \E id \in scheduled : gameLoop(id)
  \/ \E key \in Keys : handleKeyDown(key)
  \/ clock

FrameSpec ==
  /\ Init
  /\ [][FrameNext]_vars
  /\ WF_vars(update)
  /\ WF_vars(\E id \in scheduled : gameLoop(id))
  /\ WF_vars(clock)

(***************************************************************************)
(* One session of a GameManager that receives keydown events with any key  *)
(* name, between frames, pauses and resumes.                               *)
(***************************************************************************)
KeyArgs == Keys \cup {"toString", "constructor"}

KeyNext ==
  \/ (state = "menu" /\ startGame)
  \/ pauseGame
  \/ resumeGame
  \/ update
  \/ \E key \in KeyArgs : handleKeyDown(key)

KeySpec == Init /\ [][KeyNext]_vars

(***************************************************************************)
(* A bare Character driven method by method, as the unit tests drive it.   *)
(* held records the run of successive update(speed) calls: its length n,   *)
(* the position it started from, the speed, the last argument given to     *)
(* setDirection (dir) and the heading that call found (prev).  It also     *)
(* keeps the point the character was constructed at (madeX, madeY) and the *)
(* arguments of the latest reset(x, y), the construction point while there *)
(* has been none (baseX, baseY).                                           *)
(***************************************************************************)
Speeds == {2, 3, 4, 6}
DirectionArgs == validDirections \cup {"diagonal"}
UnitCoords == {100}
ResetXs == UnitCoords \cup {70}

CharInit ==
  /\ difficulty = "easy"
  /\ state = "menu"
  /\ startTime = 0
  /\ currentTime = 0
  /\ score = 0
  /\ gameLoopId = 0
  /\ live = TRUE
  /\ lg = NoLevel
  /\ character \in { newCharacter(x, y) : x \in UnitCoords, y \in UnitCoords }
  /\ cd = newCollisionDetector(<< >>, Pt(0, 0))
  /\ anim = newAnimationEngine
  /\ ih = newInputHandler
  /\ now = 0
  /\ scheduled = {}
  /\ lastOp = "Character.constructor"
  /\ probe = NoProbe
  /\ ticks = 0
  /\ held = [NoHeld EXCEPT !.madeX = character.x, !.madeY = character.y,
                           !.baseX = character.x, !.baseY = character.y]
  /\ run = NoRun
  /\ api = NoCall
  /\ board = NoBoard

gameVars == <<state, startTime, currentTime, score, gameLoopId, difficulty,
              live, lg, cd, anim, ih, now, scheduled, probe, ticks, run,
              api, board>>

U_setDirection(d) ==
  /\ character' = Character_setDirection(character, d)
  /\ held' = [held EXCEPT !.n = 0, !.speed = 0, !.dir = d,
                          !.prev = character.direction]
  /\ lastOp' = "Character.setDirection"
  /\ UNCHANGED gameVars

U_update(s) ==
  /\ held.total < MaxHeld
  /\ character' = Character_update(character, s)
  /\ held' = IF held.n > 0 /\ held.speed = s
             THEN [held EXCEPT !.n = held.n + 1, !.total = held.total + 1]
             ELSE [held EXCEPT !.n = 1, !.speed = s,
                               !.fromX = character.x, !.fromY = character.y,
                               !.total = held.total + 1]
  /\ lastOp' = "Character.update"
  /\ UNCHANGED gameVars

U_reset ==
  /\ character' = Character_reset(character)
  /\ held' = [held EXCEPT !.n = 0, !.speed = 0, !.dir = Null, !.prev = Null]
  /\ lastOp' = "Character.reset"
  /\ UNCHANGED gameVars

U_resetTo(x, y) ==
  /\ character' = Character_resetTo(character, x, y)
  /\ held' = [held EXCEPT !.n = 0, !.speed = 0, !.dir = Null, !.prev = Null,
                          !.baseX = x, !.baseY = y]
  /\ lastOp' = "Character.resetTo"
  /\ UNCHANGED gameVars

CharNext ==
  \/ \E d \in DirectionArgs : U_setDirection(d)
  \/ \E s \in Speeds : U_update(s)
  \/ U_reset
  \/ \E x \in ResetXs, y \in UnitCoords : U_resetTo(x, y)

CharSpec == CharInit /\ [][CharNext]_vars

(***************************************************************************)
(* APIClient._makeRequestWithRetry: one call, followed from await to       *)
(* await.  api.pc is the position of the call: before it ("idle"), waiting *)
(* for _makeRequest ("request"), waiting for _sleep ("sleep"), returned or *)
(* thrown.  api.outcomes lists how each _makeRequest settled and api.slept *)
(* the delays waited, in order.                                            *)
(***************************************************************************)
maxRetries == 3
retryDelay == 1000

\* how _makeRequest can settle: the parsed body of an ok response, an error
\* carrying the status of a response that is not ok, a network error
\* (fetch rejects, or the body of an ok response does not parse), or the
\* timeout error made from the abort after 10 s
Statuses == {304, 400, 404, 429, 499, 500, 503}
Outcomes ==
  {[kind |-> "ok", status |-> 200]}
    \cup {[kind |-> "http", status |-> st] : st \in Statuses}
    \cup {[kind |-> k, status |-> 0] : k \in {"network", "timeout"}}

\* variant: no error ends the retries
shouldNotRetry_never(error) == FALSE

\* error.status is undefined unless the error was made from a response
shouldNotRetry(error) ==
  error.kind = "http" /\ error.status >= 400 /\ error.status < 500

RetryInit ==
  /\ difficulty = "easy"
  /\ state = "menu"
  /\ startTime = 0
  /\ currentTime = 0
  /\ score = 0
  /\ gameLoopId = 0
  /\ live = FALSE
  /\ lg = NoLevel
  /\ character = newCharacter(0, 0)
  /\ cd = newCollisionDetector(<< >>, Pt(0, 0))
  /\ anim = newAnimationEngine
  /\ ih = newInputHandler
  /\ now = 0
  /\ scheduled = {}
  /\ lastOp = "APIClient.constructor"
  /\ probe = NoProbe
  /\ ticks = 0
  /\ held = NoHeld
  /\ run = NoRun
  /\ api = NoCall
  /\ board = NoBoard

otherVars == <<state, startTime, currentTime, score, gameLoopId, difficulty,
               live, lg, character, cd, anim, ih, now, scheduled, probe,
               ticks, held, run, board>>

\* the call enters the loop and awaits the first _makeRequest
R_call ==
  /\ api.pc = "idle"
  /\ api' = [api EXCEPT !.pc = "request", !.attempt = 1]
  /\ lastOp' = "_makeRequestWithRetry"
  /\ UNCHANGED otherVars

\* the awaited _makeRequest settles with outcome o
R_settle(o) ==
  /\ api.pc = "request"
  /\ api' =
       IF o.kind = "ok"
       THEN [api EXCEPT !.pc = "returned", !.result = o,
                        !.outcomes = Append(@, o)]
       ELSE IF shouldNotRetry(o)
       THEN [api EXCEPT !.pc = "thrown", !.lastError = o,
                        !.outcomes = Append(@, o)]
       ELSE IF api.attempt = maxRetries
       THEN [api EXCEPT !.pc = "thrown", !.lastError = o,
                        !.outcomes = Append(@, o)]
       ELSE [api EXCEPT !.pc = "sleep", !.lastError = o,
                        !.outcomes = Append(@, o),
                        !.slept = Append(@, retryDelay * 2 ^ (api.attempt - 1))]
  /\ lastOp' = "_makeRequest"
  /\ UNCHANGED otherVars

\* the awaited _sleep(delay) resolves and the loop goes round
R_wake ==
  /\ api.pc = "sleep"
  /\ api' = [api EXCEPT !.pc = "request", !.attempt = @ + 1]
  /\ lastOp' = "_sleep"
  /\ UNCHANGED otherVars

RetryNext ==
  \/ R_call
  \/ \E o \in Outcomes : R_settle(o)
  \/ R_wake

\* every awaited promise settles: fetch by a response, an error or the
\* abort timer, _sleep by its timer
RetrySpec ==
  /\ RetryInit
  /\ [][RetryNext]_vars
  /\ WF_vars(\E o \in Outcomes : R_settle(o))
  /\ WF_vars(R_wake)

(***************************************************************************)
(* The leaderboard of one difficulty: board.Items is that partition of the *)
(* score table in the order of the sort key (timestamp, oldest first);     *)
(* board.limit and board.topScores are the limit and the data of the       *)
(* latest getLeaderboard request.                                          *)
(***************************************************************************)
ScoreValues == {1000, 2000}
Limits == {1, 2}
queryFactor == 10

\* query with ScanIndexForward and Limit: the first k items of the partition
QueryItems(items, k) ==
  SubSeq(items, 1, IF k < Len(items) THEN k ELSE Len(items))

\* Array.prototype.sort((a, b) => a.score - b.score): stable
RECURSIVE insertByScore(_, _)
insertByScore(sorted, item) ==
  IF sorted = << >> THEN <<item>>
  ELSE IF sorted[Len(sorted)].score <= item.score THEN Append(sorted, item)
  ELSE Append(insertByScore(SubSeq(sorted, 1, Len(sorted) - 1), item),
              sorted[Len(sorted)])

RECURSIVE sortByScore(_)
sortByScore(items) ==
  IF items = << >> THEN << >>
  ELSE insertByScore(sortByScore(SubSeq(items, 1, Len(items) - 1)),
                     items[Len(items)])

\* slice(0, limit)
slice(items, limit) ==
  SubSeq(items, 1, IF limit < Len(items) THEN limit ELSE Len(items))

BoardInit ==
  /\ difficulty = "easy"
  /\ state = "menu"
  /\ startTime = 0
  /\ currentTime = 0
  /\ score = 0
  /\ gameLoopId = 0
  /\ live = FALSE
  /\ lg = NoLevel
  /\ character = newCharacter(0, 0)
  /\ cd = newCollisionDetector(<< >>, Pt(0, 0))
  /\ anim = newAnimationEngine
  /\ ih = newInputHandler
  /\ now = 0
  /\ scheduled = {}
  /\ lastOp = "table"
  /\ probe = NoProbe
  /\ ticks = 0
  /\ held = NoHeld
  /\ run = NoRun
  /\ api = NoCall
  /\ board = NoBoard

boardOtherVars == <<state, startTime, currentTime, score, gameLoopId,
                    difficulty, live, lg, character, cd, anim, ih, now,
                    scheduled, probe, ticks, held, run, api>>

\* a score is stored: a new item with a later timestamp
B_store(sc) ==
  /\ Len(board.Items) < MaxStored
  /\ board' = [board EXCEPT !.Items =
                 Append(@, [score |-> sc, timestamp |-> Len(@) + 1])]
  /\ lastOp' = "submitScore"
  /\ UNCHANGED boardOtherVars

\* the getLeaderboard handler with a valid limit
B_getLeaderboard(limit) ==
  /\ limit >= 1 /\ limit <= 100
  /\ board' = [board EXCEPT
                 !.limit = limit,
                 !.topScores =
                    slice(sortByScore(QueryItems(board.Items,
                                                 limit * queryFactor)),
                          limit)]
  /\ lastOp' = "getLeaderboard"
  /\ UNCHANGED boardOtherVars

BoardNext ==
  \/ \E sc \in ScoreValues : B_store(sc)
  \/ \E limit \in Limits : B_getLeaderboard(limit)

BoardSpec == BoardInit /\ [][BoardNext]_vars

(***************************************************************************)
(* Straight travel towards a wall: a game in playing on a 300 x 300 field  *)
(* with the four fence walls and one path-wall square in the middle.  The  *)
(* character starts with a heading, on a line that crosses the square or   *)
(* that runs clear of it to the fence, Gaps pixels short of the wall, and  *)
(* a frame is processed after another.  held keeps the starting point, the *)
(* heading and the number of frames.                                       *)
(***************************************************************************)
Field == [width |-> 300, height |-> 300]
Block == Rect(140, 140, wallThickness, wallThickness)
FieldWalls == <<Block>> \o fenceWalls(Field.width, Field.height)
Gaps == 0..MaxGap
\* position of the square across the line of travel: the three lines that
\* cross the block (its two extremes and its middle) and one that clears it
Lateral == {Block.y - 9, Block.y + 5, Block.y + 19, 100}

\* the starting corner, gap pixels short of the first wall on the line
TravelStart(d, lat, gap) ==
  LET hitsBlock == lat # 100
  IN  CASE d = "right" -> Pt((IF hitsBlock THEN Block.x
                                ELSE Field.width - boundaryThickness)
                               - characterSize - gap, lat)
        [] d = "left"  -> Pt((IF hitsBlock THEN Block.x + Block.width
                                ELSE boundaryThickness) + gap, lat)
        [] d = "down"  -> Pt(lat, (IF hitsBlock THEN Block.y
                                     ELSE Field.height - boundaryThickness)
                                    - characterSize - gap)
        [] d = "up"    -> Pt(lat, (IF hitsBlock THEN Block.y + Block.height
                                     ELSE boundaryThickness) + gap)

TravelInit ==
  /\ difficulty \in Difficulties
  /\ state = "playing"
  /\ startTime = 0
  /\ currentTime = 0
  /\ score = 0
  /\ gameLoopId = 0
  /\ live = TRUE
  /\ lg = [NoLevel EXCEPT !.width = Field.width, !.height = Field.height,
                          !.walls = FieldWalls,
                          !.goalPosition = Pt(Field.width - goalMargin, 200)]
  /\ \E d \in validDirections, lat \in Lateral, gap \in Gaps :
       character = [newCharacter(TravelStart(d, lat, gap).x,
                                 TravelStart(d, lat, gap).y)
                      EXCEPT !.direction = d]
  /\ cd = newCollisionDetector(lg.walls, lg.goalPosition)
  /\ anim = newAnimationEngine
  /\ ih = InputHandler_enable(newInputHandler)
  /\ now = 0
  /\ scheduled = {}
  /\ lastOp = "startGame"
  /\ probe = NoProbe
  /\ ticks = 0
  /\ held = [NoHeld EXCEPT !.fromX = character.x, !.fromY = character.y,
                           !.dir = character.direction,
                           !.speed = getCharacterSpeed(difficulty)]
  /\ run = NoRun
  /\ api = NoCall
  /\ board = NoBoard

\* update(deltaTime) in playing with no effect playing
T_update ==
  /\ state = "playing"
  /\ ~isPlaying(anim)
  /\ currentTime' = now - startTime
  /\ character' = Character_update(character, getCharacterSpeed(difficulty))
  /\ IF checkWallCollision(character', cd.walls)
     THEN /\ cd' = [cd EXCEPT !.lastCollisionPoint =
                                 <<collisionCentre(character')>>]
          /\ probe' = [NoProbe EXCEPT !.path = "run", !.wall = "true"]
          /\ handleGameOver
     ELSE IF checkGoalCollision(character', cd.goal)
     THEN /\ probe' = [NoProbe EXCEPT !.path = "run", !.wall = "false",
                                      !.goal = "true"]
          /\ handleGoalReached
          /\ UNCHANGED cd
     ELSE /\ probe' = [NoProbe EXCEPT !.path = "run", !.wall = "false",
                                      !.goal = "false"]
          /\ UNCHANGED <<state, score, cd, ih, anim>>
  /\ held' = [held EXCEPT !.n = @ + 1]
  /\ lastOp' = "update"
  /\ UNCHANGED <<startTime, gameLoopId, difficulty, live, lg, now, scheduled,
                 ticks, run, api, board>>

TravelNext == T_update

TravelSpec == TravelInit /\ [][TravelNext]_vars

(***************************************************************************)
(* A bare LevelGenerator: new LevelGenerator(width, height, difficulty)    *)
(* followed by any number of generate() calls, as setup.test.js drives it. *)
(* lg.width, lg.height and difficulty hold the constructor's arguments     *)
(* from the start; live says that the constructor has returned an object.  *)
(***************************************************************************)
CanvasWidths == 1..MaxWidth
DifficultyArgs_LG == Difficulties \cup ObjectPrototypeKeys
                     \cup {"invalid", "Easy", "", "superhard"}

GenInit ==
  /\ difficulty \in DifficultyArgs_LG
  /\ state = "menu"
  /\ startTime = 0
  /\ currentTime = 0
  /\ score = 0
  /\ gameLoopId = 0
  /\ live = FALSE
  /\ lg \in { [NoLevel EXCEPT !.width = W, !.height = Canvas.height] :
               W \in CanvasWidths }
  /\ character = newCharacter(0, 0)
  /\ cd = newCollisionDetector(<< >>, Pt(0, 0))
  /\ anim = newAnimationEngine
  /\ ih = newInputHandler
  /\ now = 0
  /\ scheduled = {}
  /\ lastOp = "arguments"
  /\ probe = NoProbe
  /\ ticks = 0
  /\ held = NoHeld
  /\ run = NoRun
  /\ api = NoCall
  /\ board = NoBoard

levelVars == <<state, startTime, currentTime, score, gameLoopId, difficulty,
               character, cd, anim, ih, now, scheduled, ticks, held, run,
               api, board>>

\* constructor(width, height, difficulty)
G_construct ==
  /\ lastOp = "arguments"
  /\ IF passesValidation(difficulty)
     THEN /\ live' = TRUE
          /\ lastOp' = "LevelGenerator"
     ELSE /\ live' = FALSE
          /\ lastOp' = "throw"
  /\ UNCHANGED <<lg, probe>>
  /\ UNCHANGED levelVars

\* generate()
G_generate ==
  /\ live
  /\ lg' \in IF lookupSetting(difficulty) = "settings"
             THEN Levels(difficulty, lg.width, lg.height)
             ELSE LevelsNaN(lg.width, lg.height)
  /\ lastOp' = "generate"
  /\ probe' = [NoProbe EXCEPT !.generated = TRUE]
  /\ UNCHANGED live
  /\ UNCHANGED levelVars

GenNext ==
  \/ G_construct
  \/ G_generate

GenSpec == GenInit /\ [][GenNext]_vars

(***************************************************************************)
(* Properties                                                              *)
(***************************************************************************)
Max(a, b) == IF a > b THEN a ELSE b
Min(a, b) == IF a < b THEN a ELSE b

\* two rectangles share a region of positive area
Overlaps(r, w) ==
  /\ Max(r.x, w.x) < Min(r.x + r.width, w.x + w.width)
  /\ Max(r.y, w.y) < Min(r.y + r.height, w.y + w.height)

CharacterSquare == Rect(character.x, character.y, 10, 10)
GoalBox == Rect(lg.goalPosition.x - 15, lg.goalPosition.y - 15, 30, 30)
OverlapsSomeWall == \E i \in 1..Len(lg.walls) : Overlaps(CharacterSquare, lg.walls[i])

IsTick(op) == op \in {"update", "gameLoop"}
\* the state a gameplay tick (playing, no effect mid-flight) has just left
AfterGameplayTick == IsTick(lastOp) /\ probe.path = "run" /\ live

DX(d) == CASE d = "left" -> 0 - 1 [] d = "right" -> 1 [] OTHER -> 0
DY(d) == CASE d = "up" -> 0 - 1 [] d = "down" -> 1 [] OTHER -> 0

\* C1: when a gameplay tick returns and the moved character's square
\* overlaps a wall rectangle of the current level, checkWallCollision has
\* returned true and the state is gameover.
C1_CollisionTriggersGameOver ==
  (AfterGameplayTick /\ OverlapsSomeWall)
    => (probe.wall = "true" /\ state = "gameover")

C1_Witness ==
  /\ AfterGameplayTick
  /\ OverlapsSomeWall
  /\ state = "gameover"
  /\ character.direction # Null

\* C2: a tick that detects the goal at elapsed time T leaves state victory
\* with score = T, and getCurrentScore() keeps returning that value for as
\* long as the state stays victory.
C2_ScoreEqualsCompletionTime ==
  [][ /\ (IsTick(lastOp') /\ probe'.goal = "true")
         => /\ state' = "victory"
            /\ currentTime' = now' - startTime'
            /\ score' = currentTime'
            /\ getCurrentScore' = currentTime'
      /\ (state = "victory" /\ state' = "victory")
         => /\ score' = score
            /\ getCurrentScore' = getCurrentScore ]_vars

C2_Witness ==
  /\ state = "victory"
  /\ score > 0
  /\ getCurrentScore = score
  /\ lastOp = "pauseGame"

\* C3: on a gameover transition caused by a wall collision at elapsed time
\* T, getCurrentScore() in state gameover returns T.
C3_GameOverScoreIsElapsed ==
  (AfterGameplayTick /\ probe.wall = "true" /\ state = "gameover")
    => getCurrentScore = now - startTime

\* C4: a tick in a state other than playing changes neither the state tag,
\* the elapsed time, the score, getCurrentScore() nor the character.
C4_TickOutsidePlayingIsNoOp ==
  [][ (IsTick(lastOp') /\ state # "playing")
        => /\ UNCHANGED <<state, currentTime, score, character>>
           /\ getCurrentScore' = getCurrentScore ]_vars

C4_Witness ==
  /\ IsTick(lastOp)
  /\ probe.path = "idle"
  /\ state = "gameover"
  /\ now > startTime + currentTime

\* C5: after restartGame() on a live GameManager the state is menu, the
\* timer and score are zero, a newly generated level is installed in the
\* collision detector, the character is at its start point with no heading
\* and the input handler is disabled with no current direction.
C5_RestartResetsState ==
  [][ (lastOp' = "restartGame" /\ live')
        => /\ state' = "menu"
           /\ startTime' = 0
           /\ currentTime' = 0
           /\ score' = 0
           /\ probe'.generated
           /\ cd'.walls = lg'.walls
           /\ cd'.goal = lg'.goalPosition
           /\ character'.x = lg'.startPosition.x
           /\ character'.y = lg'.startPosition.y
           /\ character'.direction = Null
           /\ ih'.enabled = FALSE
           /\ ih'.currentDirection = Null ]_vars

C5_Witness ==
  /\ lastOp = "restartGame"
  /\ live
  /\ probe.generated
  /\ state = "menu"
  /\ cd.walls = lg.walls
  /\ now > 0

\* C6: an arrow key handled while the state is not playing leaves the
\* character and the input handler exactly as they were, so nothing is kept
\* for later replay.
C6_InputGatedOutsidePlaying ==
  [][ (lastOp' = "handleKeyDown" /\ state # "playing")
        => UNCHANGED <<character, ih, state>> ]_vars

C6_Witness ==
  /\ lastOp = "handleKeyDown"
  /\ state = "paused"
  /\ character.direction # Null

\* C7: setDirection(d) with a valid d, whatever the heading before, followed
\* by update(s) moves the character by exactly s along d and leaves the
\* other coordinate unchanged.
C7_DirectionChangeWithoutStop ==
  [][ (/\ lastOp = "Character.setDirection"
       /\ held.dir \in validDirections
       /\ lastOp' = "Character.update")
        => /\ character'.x = character.x + DX(held.dir) * held'.speed
           /\ character'.y = character.y + DY(held.dir) * held'.speed ]_vars

C7_Witness ==
  /\ lastOp = "Character.update"
  /\ held.n = 1
  /\ held.dir \in validDirections
  /\ held.prev \in validDirections
  /\ held.prev # held.dir
  /\ character.direction = held.dir

\* C8: after the k-th of successive update(s) calls under one heading the
\* position is the starting position plus k*s along the heading, and the
\* perpendicular coordinate is the starting one.
C8_ContinuousMovement ==
  (lastOp = "Character.update" /\ character.direction # Null)
    => /\ character.x = held.fromX + held.n * held.speed * DX(character.direction)
       /\ character.y = held.fromY + held.n * held.speed * DY(character.direction)

C8_Witness ==
  /\ lastOp = "Character.update"
  /\ character.direction # Null
  /\ held.n >= 3

\* C9: when a gameplay tick returns and the moved character's square
\* overlaps no wall rectangle of the level and not the goal box,
\* checkWallCollision has returned false and the state is still playing.
C9_SafePathAllowsContinuation ==
  (AfterGameplayTick /\ ~OverlapsSomeWall /\ ~Overlaps(CharacterSquare, GoalBox))
    => (probe.wall = "false" /\ probe.goal = "false" /\ state = "playing")

C9_Witness ==
  /\ AfterGameplayTick
  /\ ~OverlapsSomeWall
  /\ ~Overlaps(CharacterSquare, GoalBox)
  /\ state = "playing"
  /\ ticks >= 1
  /\ character.direction # Null

\* C10: path width and character speed follow the table easy 100/2,
\* medium 60/3, hard 40/4, super-hard 30/6, and every moving gameplay tick
\* displaces the character by exactly the table's speed.
TableWidth(d) ==
  CASE d = "easy" -> 100 [] d = "medium" -> 60 [] d = "hard" -> 40
    [] d = "super-hard" -> 30
TableSpeed(d) ==
  CASE d = "easy" -> 2 [] d = "medium" -> 3 [] d = "hard" -> 4
    [] d = "super-hard" -> 6

C10_DifficultyTable ==
  [][ /\ getPathWidth(difficulty') = TableWidth(difficulty')
      /\ getCharacterSpeed(difficulty') = TableSpeed(difficulty')
      /\ (IsTick(lastOp') /\ probe'.path = "run" /\ live
          /\ character.direction # Null)
         => /\ character'.x = character.x + DX(character.direction) * TableSpeed(difficulty)
            /\ character'.y = character.y + DY(character.direction) * TableSpeed(difficulty) ]_vars

C10_Witness ==
  /\ AfterGameplayTick
  /\ difficulty = "super-hard"
  /\ character.direction = "up"
  /\ character.y = lg.startPosition.y - 6

(***************************************************************************)
(* C11: for every level generated on a canvas wider than the two fixed     *)
(* margins together (width > 100), the start lies left of the horizontal   *)
(* midpoint and the goal right of it.                                      *)
(***************************************************************************)
C11_StartLeftGoalRight ==
  (lastOp = "generate" /\ lg.width > startX + goalMargin)
    => /\ 2 * lg.startPosition.x < lg.width
       /\ 2 * lg.goalPosition.x > lg.width

C11_Witness ==
  /\ lastOp = "generate"
  /\ lg.width = startX + goalMargin + 1
  /\ difficulty = "super-hard"
  /\ Len(lg.path) > 3
  /\ 2 * lg.startPosition.x < lg.width
  /\ 2 * lg.goalPosition.x > lg.width

\* C11 as stated: the same for every canvas width, with no lower bound
C11_AnyWidth ==
  lastOp = "generate"
    => /\ 2 * lg.startPosition.x < lg.width
       /\ 2 * lg.goalPosition.x > lg.width

(***************************************************************************)
(* C12: constructing a LevelGenerator with a difficulty other than the     *)
(* four tags throws at once; no generator, path or wall list results.      *)
(***************************************************************************)
C12_InvalidDifficultyThrows ==
  (difficulty \notin Difficulties /\ lastOp # "arguments")
    => /\ lastOp = "throw"
       /\ ~live
       /\ lg.path = << >>
       /\ lg.walls = << >>

(***************************************************************************)
(* C13: at every tick executed in playing, the elapsed time equals the     *)
(* wall-clock time since start() less the total length of the paused       *)
(* intervals of the run.                                                   *)
(***************************************************************************)
TickedInPlaying == IsTick(lastOp) /\ probe.path \in {"run", "anim"}

C13_ElapsedExcludesPausedTime ==
  TickedInPlaying => currentTime = now - run.base

(***************************************************************************)
(* C14: for two consecutive ticks executed in playing within one run,      *)
(* pause/resume cycles between them included, the elapsed time after the   *)
(* later tick is not less than the elapsed time after the earlier one.     *)
(* (Between the two ticks no operation writes the elapsed time, so the     *)
(* value the later tick finds is the one the earlier tick left.)           *)
(***************************************************************************)
LaterTickOfRun == state = "playing" /\ run.ticked /\ IsTick(lastOp')

C14_ElapsedNeverDecreases ==
  [][ /\ LaterTickOfRun => currentTime' >= currentTime
      /\ (run.ticked /\ run'.ticked /\ ~IsTick(lastOp'))
           => currentTime' = currentTime ]_vars

C14_Witness ==
  /\ TickedInPlaying
  /\ probe.again
  /\ state = "playing"
  /\ currentTime > 0

\* C14 as stated: the elapsed time after the later tick is strictly greater
C14_ElapsedStrictlyIncreases ==
  [][ LaterTickOfRun => currentTime' > currentTime ]_vars

(***************************************************************************)
(* C15: a gameplay tick moves the character first and tests the position   *)
(* after the move: from a square clear of every wall to one overlapping a  *)
(* wall the tick ends in gameover; from a square overlapping a wall to one *)
(* clear of every wall it does not end in gameover.                        *)
(***************************************************************************)
SquareOf(c) == Rect(c.x, c.y, 10, 10)
OverlapsWallAt(c) ==
  \E i \in 1..Len(lg.walls) : Overlaps(SquareOf(c), lg.walls[i])
OverlapsGoalAt(c) == Overlaps(SquareOf(c), GoalBox)

C15_TestsUsePostMovePosition ==
  [][ (IsTick(lastOp') /\ probe'.path = "run" /\ live)
        => /\ character'.x = character.x + DX(character.direction)
                                             * TableSpeed(difficulty)
           /\ character'.y = character.y + DY(character.direction)
                                             * TableSpeed(difficulty)
           /\ (~OverlapsWallAt(character) /\ OverlapsWallAt(character'))
                 => state' = "gameover"
           /\ (OverlapsWallAt(character) /\ ~OverlapsWallAt(character'))
                 => (state' # "gameover" /\ probe'.wall = "false")
           /\ probe'.goal = "true"
                 <=> (~OverlapsWallAt(character')
                      /\ OverlapsGoalAt(character')) ]_vars

\* after the one moving tick of the run the character stands clear of the
\* walls, having left a start square that overlaps one
C15_Witness ==
  /\ AfterGameplayTick
  /\ ticks = 1
  /\ state = "playing"
  /\ probe.wall = "false"
  /\ OverlapsWallAt(lg.startPosition)
  /\ ~OverlapsSomeWall
  /\ character.x = lg.startPosition.x
  /\ character.y = lg.startPosition.y - TableSpeed(difficulty)

(***************************************************************************)
(* C16: a tick in playing while an effect is in flight leaves the          *)
(* character, the state tag, the score and the collision evaluator as they *)
(* are and evaluates neither test; the elapsed time is still recomputed.   *)
(***************************************************************************)
C16_GameplaySuspendedDuringEffect ==
  [][ (IsTick(lastOp') /\ state = "playing" /\ live /\ anim.isAnimating)
        => /\ character' = character
           /\ state' = state
           /\ score' = score
           /\ cd' = cd
           /\ probe'.wall = "none"
           /\ probe'.goal = "none"
           /\ currentTime' = now - startTime ]_vars

C16_Witness ==
  /\ TickedInPlaying
  /\ probe.path = "anim"
  /\ state = "playing"
  /\ anim.isAnimating
  /\ currentTime > 0
  /\ character.x = lg.startPosition.x
  /\ character.direction = Null

(***************************************************************************)
(* C17: once a collision has started the explosion or victory effect, and  *)
(* while ticks keep coming and neither restart() nor destroy() is called,  *)
(* the effect eventually finishes (isPlaying() is false).  Stated from the  *)
(* instant the duration of the effect has elapsed, so that finishing does  *)
(* not wait for the clock.                                                 *)
(***************************************************************************)
EffectDue ==
  /\ state \in {"gameover", "victory"}
  /\ anim.isAnimating
  /\ now - anim.animationStartTime >= anim.animationDuration

C17_EffectEventuallyFinishes == EffectDue ~> ~anim.isAnimating

(***************************************************************************)
(* C18: gameover and victory are terminal: no operation other than         *)
(* restart() changes the state tag; tick, input, pause, resume and start() *)
(* all leave it.                                                           *)
(***************************************************************************)
C18_TerminalStatesNeedRestart ==
  [][ (state \in {"gameover", "victory"} /\ lastOp' # "restartGame")
        => state' = state ]_vars

(***************************************************************************)
(* C19: start() called while playing leaves the session as restart()       *)
(* followed by start() does: playing, elapsed time 0, score 0, a freshly   *)
(* generated level installed in the collision evaluator, the last          *)
(* collision point cleared, no effect in flight, and the character at the  *)
(* start of that level with no heading.                                    *)
(***************************************************************************)
C19_StartWhilePlayingRestarts ==
  [][ (lastOp' = "startGame" /\ state = "playing" /\ live)
        => /\ state' = "playing"
           /\ currentTime' = 0
           /\ score' = 0
           /\ probe'.generated
           /\ cd'.walls = lg'.walls
           /\ cd'.goal = lg'.goalPosition
           /\ cd'.lastCollisionPoint = NullPoint
           /\ ~anim'.isAnimating
           /\ character'.x = lg'.startPosition.x
           /\ character'.y = lg'.startPosition.y
           /\ character'.direction = Null ]_vars

(***************************************************************************)
(* C20: when restart() or destroy() returns, whatever the state it was     *)
(* called in, the frame loop is stopped: no frame callback is scheduled,   *)
(* and a tick that follows (start() not having been called) changes        *)
(* neither the elapsed time, nor the character, nor the state tag.         *)
(***************************************************************************)
C20_LoopStoppedAfterTeardown ==
  [][ (lastOp \in {"restartGame", "destroy"})
        => /\ scheduled = {}
           /\ gameLoopId = 0
           /\ IsTick(lastOp')
                => (/\ currentTime' = currentTime
                    /\ character' = character
                    /\ state' = state) ]_vars

(***************************************************************************)
(* C21: in every state of a live GameManager the walls and the goal the    *)
(* collision detector tests against are those of the level the generator   *)
(* produced last.                                                          *)
(***************************************************************************)
C21_DetectorUsesCurrentLevel ==
  live => (cd.walls = lg.walls /\ cd.goal = lg.goalPosition)

C21_Witness ==
  /\ live
  /\ lastOp = "restartGame"
  /\ probe.generated
  /\ now > 0
  /\ Len(lg.path) = 6
  /\ cd.walls = lg.walls
  /\ cd.goal = lg.goalPosition

(***************************************************************************)
(* C22: the position of the character of a live GameManager changes only   *)
(* by a tick executed in playing or by the reset to the start point of the *)
(* current level that start() and restart() perform; pause(), resume() and *)
(* key input leave it, and a tick that ends in gameover or victory leaves  *)
(* it where the move of that tick put it.                                  *)
(***************************************************************************)
Moved == character'.x # character.x \/ character'.y # character.y

C22_PositionChangesOnlyByTickOrReset ==
  [][ (live' /\ Moved)
        => \/ /\ IsTick(lastOp')
              /\ state = "playing"
              /\ character'.x = character.x + DX(character.direction)
                                                * TableSpeed(difficulty)
              /\ character'.y = character.y + DY(character.direction)
                                                * TableSpeed(difficulty)
           \/ /\ lastOp' \in {"startGame", "restartGame"}
              /\ character'.x = lg'.startPosition.x
              /\ character'.y = lg'.startPosition.y ]_vars

\* the game is paused with the character away from the start point
C22_Witness ==
  /\ live
  /\ lastOp = "pauseGame"
  /\ state = "paused"
  /\ character.direction # Null
  /\ (character.x # lg.startPosition.x \/ character.y # lg.startPosition.y)

(***************************************************************************)
(* C23: reset(x, y) puts the character at (x, y); reset() puts it at the   *)
(* point of the latest reset(x, y), or at the construction point while     *)
(* there has been none; both clear the heading.                            *)
(***************************************************************************)
C23_ResetReturnsToLatestBase ==
  (lastOp \in {"Character.reset", "Character.resetTo"})
    => /\ character.x = held.baseX
       /\ character.y = held.baseY
       /\ character.direction = Null

\* reset() after movement, on a character that reset(x, y) had put elsewhere
\* than where it was constructed
C23_Witness ==
  /\ lastOp = "Character.reset"
  /\ held.total >= 1
  /\ held.baseX # held.madeX
  /\ character.x = held.baseX
  /\ character.direction = Null

\* C23 as stated: reset() puts the character at the point it was constructed
\* with, whatever reset(x, y) calls came before
C23_ResetReturnsToConstructionPoint ==
  /\ lastOp = "Character.resetTo"
       => /\ character.x = held.baseX
          /\ character.y = held.baseY
          /\ character.direction = Null
  /\ lastOp = "Character.reset"
       => /\ character.x = held.madeX
          /\ character.y = held.madeY
          /\ character.direction = Null

(***************************************************************************)
(* C24: a keydown event in playing is either an arrow key, which sets the  *)
(* input handler's direction and the heading to one of the four            *)
(* directions, or it is dropped: heading, position, game state and the     *)
(* input handler's current direction stay as they were.                    *)
(***************************************************************************)
C24_OtherKeysDropped ==
  [][ (lastOp' = "handleKeyDown" /\ state = "playing" /\ live)
        => \/ /\ ih'.currentDirection \in validDirections
              /\ character'.direction = ih'.currentDirection
              /\ character'.x = character.x /\ character'.y = character.y
              /\ state' = state
           \/ /\ ih' = ih
              /\ character' = character
              /\ state' = state ]_vars

(***************************************************************************)
(* C25: the collision point is unset until a wall test is positive; a      *)
(* positive wall test sets it to the centre of the character's bounds at   *)
(* that test; nothing else sets it; restartGame() unsets it; and the first *)
(* tick of a run finds it unset.                                           *)
(***************************************************************************)
C25_CollisionPointLifecycle ==
  [][ live'
        => /\ (IsTick(lastOp') /\ probe'.wall = "true")
                => cd'.lastCollisionPoint =
                     << Pt(character'.x + 5, character'.y + 5) >>
           /\ (cd'.lastCollisionPoint # cd.lastCollisionPoint)
                => \/ IsTick(lastOp') /\ probe'.wall = "true"
                   \/ /\ lastOp' = "restartGame"
                      /\ cd'.lastCollisionPoint = NullPoint
           /\ (lastOp' = "restartGame") => cd'.lastCollisionPoint = NullPoint
           /\ (IsTick(lastOp') /\ state = "playing" /\ ~run.ticked)
                => cd.lastCollisionPoint = NullPoint ]_vars

(***************************************************************************)
(* C26: the goal test of a tick is positive exactly when the character     *)
(* square and the 30 x 30 square centred on the goal overlap with positive *)
(* area, on every difficulty; squares that only share an edge do not       *)
(* collide.                                                                *)
(***************************************************************************)
C26_GoalTestIsStrictOverlap ==
  (AfterGameplayTick /\ probe.goal \in {"true", "false"})
    => (probe.goal = "true" <=> Overlaps(CharacterSquare, GoalBox))

\* a tick leaves the character square with its right edge on the left edge
\* of the goal box: the goal test is negative
C26_Witness ==
  /\ AfterGameplayTick
  /\ probe.goal = "false"
  /\ character.x + 10 = lg.goalPosition.x - 15
  /\ character.y < lg.goalPosition.y + 15
  /\ character.y + 10 > lg.goalPosition.y - 15

(***************************************************************************)
(* C27: while an explosion or victory effect is playing, a keydown event   *)
(* changes neither the heading nor the position of the character.          *)
(***************************************************************************)
C27_NoInputDuringEffect ==
  [][ (lastOp' = "handleKeyDown" /\ live /\ anim.isAnimating)
        => /\ character'.direction = character.direction
           /\ character'.x = character.x
           /\ character'.y = character.y ]_vars

(***************************************************************************)
(* C28: a character that travels along one axis at speed 2, 3, 4 or 6      *)
(* never gets past a 20 x 20 path wall or a 50-pixel fence wall that lies  *)
(* across its line of travel: while the game is playing the square is      *)
(* still short of the wall, and the game is over with the square on the    *)
(* wall.                                                                   *)
(***************************************************************************)
\* wall w lies across the line of travel, ahead of the starting point
AcrossTravel(w) ==
  CASE held.dir = "right" -> /\ held.fromX + 10 <= w.x
                             /\ held.fromY < w.y + w.height
                             /\ held.fromY + 10 > w.y
    [] held.dir = "left"  -> /\ held.fromX >= w.x + w.width
                             /\ held.fromY < w.y + w.height
                             /\ held.fromY + 10 > w.y
    [] held.dir = "down"  -> /\ held.fromY + 10 <= w.y
                             /\ held.fromX < w.x + w.width
                             /\ held.fromX + 10 > w.x
    [] held.dir = "up"    -> /\ held.fromY >= w.y + w.height
                             /\ held.fromX < w.x + w.width
                             /\ held.fromX + 10 > w.x
    [] OTHER              -> FALSE

\* the square has not reached wall w yet
ShortOf(w) ==
  CASE held.dir = "right" -> character.x + 10 <= w.x
    [] held.dir = "left"  -> character.x >= w.x + w.width
    [] held.dir = "down"  -> character.y + 10 <= w.y
    [] held.dir = "up"    -> character.y >= w.y + w.height
    [] OTHER              -> FALSE

C28_NoTunnelling ==
  \A i \in 1..Len(lg.walls) :
    AcrossTravel(lg.walls[i])
      => \/ state = "playing" /\ ShortOf(lg.walls[i])
         \/ state = "gameover" /\ OverlapsSomeWall
               /\ \A j \in 1..Len(lg.walls) :
                    AcrossTravel(lg.walls[j])
                      => \/ ShortOf(lg.walls[j])
                         \/ Overlaps(CharacterSquare, lg.walls[j])

\* the fastest character stopped on the path wall after several frames
C28_Witness ==
  /\ state = "gameover"
  /\ held.speed = 6
  /\ held.n >= 3
  /\ lastOp = "update"
  /\ Overlaps(CharacterSquare, Block)
  /\ AcrossTravel(Block)

(***************************************************************************)
(* C29: a call of _makeRequestWithRetry makes at most three attempts and   *)
(* ends; it returns the response of the first attempt that succeeds; a     *)
(* status 400..499 ends it with that error after that attempt; a network   *)
(* error, a timeout or any other status is retried, and the third failure  *)
(* is thrown.                                                              *)
(***************************************************************************)
Failed(o) == o.kind # "ok"
ClientError(o) == o.kind = "http" /\ o.status \in 400..499
Ended == api.pc \in {"returned", "thrown"}

RetryContract ==
  LET n == Len(api.outcomes)
  IN  /\ n <= 3
      /\ api.attempt <= 3
      /\ \A i \in 1..(n - 1) :
           Failed(api.outcomes[i]) /\ ~ClientError(api.outcomes[i])
      /\ api.pc = "returned"
           => /\ n >= 1
              /\ ~Failed(api.outcomes[n])
              /\ api.result = api.outcomes[n]
      /\ api.pc = "thrown"
           => /\ n >= 1
              /\ Failed(api.outcomes[n])
              /\ api.lastError = api.outcomes[n]
              /\ ClientError(api.outcomes[n]) \/ n = 3
      /\ (n >= 1 /\ ~Ended)
           => /\ n < 3
              /\ Failed(api.outcomes[n])
              /\ ~ClientError(api.outcomes[n])
      /\ (n >= 1 /\ ClientError(api.outcomes[n])) => api.pc = "thrown"
      /\ api.slept = [i \in 1..Len(api.slept) |-> IF i = 1 THEN 1000 ELSE 2000]

C29_RetryEndsWithinThreeAttempts ==
  /\ []RetryContract
  /\ (api.pc # "idle") ~> Ended

\* three failures that are retried, the last one thrown after two waits
C29_Witness ==
  /\ api.pc = "thrown"
  /\ Len(api.outcomes) = 3
  /\ api.outcomes[1].kind = "network"
  /\ api.outcomes[2].status = 503
  /\ api.outcomes[3].kind = "timeout"
  /\ api.lastError.kind = "timeout"
  /\ api.slept = <<1000, 2000>>

(***************************************************************************)
(* C30: whatever scores are stored and whatever the limit, the leaderboard *)
(* returns min(limit, number stored) of the stored entries, in ascending   *)
(* order of score, and no stored entry that is left out has a lower score  *)
(* than one that is returned.                                              *)
(***************************************************************************)
C30_LeaderboardIsLowestScores ==
  (lastOp = "getLeaderboard")
    => LET top == board.topScores
           k == Len(top)
           returned == {top[i].timestamp : i \in 1..k}
       IN  /\ k = Min(board.limit, Len(board.Items))
           /\ \A i \in 1..k : \E j \in 1..Len(board.Items) : board.Items[j] = top[i]
           /\ Cardinality(returned) = k
           /\ \A i \in 1..(k - 1) : top[i].score <= top[i + 1].score
           /\ \A i \in 1..k : \A j \in 1..Len(board.Items) :
                board.Items[j].timestamp \notin returned
                  => top[i].score <= board.Items[j].score

(***************************************************************************)
(* C31: when startGame() or resumeGame() returns with the state playing, a *)
(* frame callback of the game loop is pending.                             *)
(***************************************************************************)
C31_LoopScheduledWhenPlayingBegins ==
  [][ (\/ lastOp' = "startGame"
       \/ lastOp' = "resumeGame" /\ state = "paused")
        => (state' = "playing" /\ gameLoopId' \in scheduled') ]_vars

(***************************************************************************)
(* C32: between operations of a live GameManager the input handler is      *)
(* enabled exactly when the state is playing.                              *)
(***************************************************************************)
C32_InputEnabledIffPlaying ==
  live => (ih.enabled <=> state = "playing")

\* a frame has just ended the run on a wall and the input is off
C32_Witness ==
  /\ live
  /\ IsTick(lastOp)
  /\ probe.wall = "true"
  /\ state = "gameover"
  /\ ~ih.enabled

(***************************************************************************)
(* C33: at most one frame callback of the GameManager is pending at any    *)
(* time.                                                                   *)
(***************************************************************************)
C33_AtMostOnePendingFrame ==
  Cardinality(scheduled) <= 1

\* the one pending callback after a tick, a pause and a resume
C33_Witness ==
  /\ lastOp = "resumeGame"
  /\ state = "playing"
  /\ run.ticked
  /\ scheduled = {gameLoopId}

(***************************************************************************)
(* C34: within a tick the wall test comes first: when the post-move square *)
(* overlaps both a wall and the goal box the tick ends in gameover, the    *)
(* goal test is not evaluated and no score is recorded.                    *)
(***************************************************************************)
C34_WallTestBeforeGoalTest ==
  [][ (/\ IsTick(lastOp') /\ probe'.path = "run" /\ live
       /\ OverlapsWallAt(character') /\ OverlapsGoalAt(character'))
        => /\ state' = "gameover"
           /\ probe'.wall = "true"
           /\ probe'.goal = "none"
           /\ score' = score ]_vars

\* a tick has left the square on a wall and on the goal box at once
C34_Witness ==
  /\ AfterGameplayTick
  /\ OverlapsSomeWall
  /\ Overlaps(CharacterSquare, GoalBox)
  /\ state = "gameover"
  /\ score = 0

(***************************************************************************)
(* C35: pause() outside playing and resume() outside paused change neither *)
(* the state tag, startTime, the elapsed time, the score, the input        *)
(* enablement nor the frame-loop scheduling; paused is entered only by     *)
(* pause() from playing and left only by resume() or restart().            *)
(***************************************************************************)
C35_PauseResumeOnlyWhereDefined ==
  [][ /\ (\/ lastOp' = "pauseGame" /\ state # "playing"
          \/ lastOp' = "resumeGame" /\ state # "paused")
         => /\ state' = state
            /\ startTime' = startTime
            /\ currentTime' = currentTime
            /\ score' = score
            /\ ih'.enabled = ih.enabled
            /\ gameLoopId' = gameLoopId
            /\ scheduled' = scheduled
      /\ (state # "paused" /\ state' = "paused")
         => (lastOp' = "pauseGame" /\ state = "playing")
      /\ (state = "paused" /\ state' # "paused")
         => lastOp' \in {"resumeGame", "restartGame"} ]_vars

(***************************************************************************)
(* C36: on every generated level the character square at the start point   *)
(* overlaps no wall rectangle and not the goal box, so the first tick      *)
(* after start() on a fresh level, with no direction given, leaves the     *)
(* state playing.                                                          *)
(***************************************************************************)
C36_StartSquareIsClear ==
  [][ live
        => /\ ~OverlapsWallAt(lg.startPosition)
           /\ ~OverlapsGoalAt(lg.startPosition)
           /\ (/\ IsTick(lastOp') /\ state = "playing" /\ ~run.ticked
               /\ character.direction = Null
               /\ ~anim.isAnimating /\ cd.lastCollisionPoint = NullPoint)
                => state' = "playing" ]_vars

ElapsedWithinRun ==
  /\ currentTime >= 0
  /\ currentTime <= now
  /\ currentTime <= now - run.base

C38_ElapsedBoundedByWallClock ==
  /\ []ElapsedWithinRun
  /\ [][ /\ (lastOp' = "startGame") => run'.base = now
         /\ (lastOp' \notin {"startGame", "restartGame"})
              => run'.base >= run.base ]_vars

\* a frame callback has run some time after start(): the elapsed time is
\* positive and equal to the time since start()
C38_Witness ==
  /\ lastOp = "gameLoop"
  /\ probe.path = "run"
  /\ state = "playing"
  /\ currentTime > 0
  /\ currentTime = now - run.base
  /\ currentTime = now - startTime

(***************************************************************************)
(* C39: what a tick does to the position, the heading and the state tag    *)
(* does not depend on the clock.  A tick in playing with no effect in      *)
(* flight moves the character by its heading times the speed and sets the  *)
(* state from the two tests; a tick in playing with an effect in flight    *)
(* leaves position, heading and state, and leaves the effect as it would   *)
(* at any other clock reading, in particular at the reading at which the   *)
(* effect began; a tick outside playing changes none of them.              *)
(***************************************************************************)
TickOutcome(c) ==
  IF OverlapsWallAt(c) THEN "gameover"
  ELSE IF OverlapsGoalAt(c) THEN "victory"
  ELSE "playing"

C39_MovementIndependentOfClock ==
  [][ (IsTick(lastOp') /\ live)
        => /\ (state = "playing" /\ ~anim.isAnimating)
                => /\ character'.x = character.x + DX(character.direction)
                                                     * TableSpeed(difficulty)
                   /\ character'.y = character.y + DY(character.direction)
                                                     * TableSpeed(difficulty)
                   /\ character'.direction = character.direction
                   /\ state' = TickOutcome(character')
           /\ (state = "playing" /\ anim.isAnimating)
                => /\ character' = character
                   /\ state' = state
                   /\ anim'.isAnimating =
                        AnimationEngine_update(anim,
                                               anim.animationStartTime).isAnimating
           /\ (state # "playing")
                => (character' = character /\ state' = state) ]_vars

====
